---- MODULE Spec2Model ----
(***************************************************************************)
(* State-machine model of src/src/main.rs (ThatNoobSkyApp installer).      *)
(*                                                                         *)
(* The UI thread runs Default::default() once and then update() once per   *)
(* frame; the tokio runtime runs the tasks spawned by install_mod; the     *)
(* filesystem and the network are the environment.                         *)
(*                                                                         *)
(* Encodings                                                               *)
(*   path            sequence of components, <<"C:", "Program Files", ..>> *)
(*   Option<T>       <<>> is None, <<x>> is Some(x)                        *)
(*   String message  <<text, detail>>; detail is the interpolated value    *)
(*                   (a path, or a nested message), <<>> when none         *)
(*   fs              function from the existing paths to Dir or File(data) *)
(*   bytes           a sequence of strings                                 *)
(***************************************************************************)
EXTENDS Integers, Sequences, FiniteSets, TLC

VARIABLES
    fs,                 \* the filesystem (environment)
    net_up,             \* whether dll_url can be reached over the network (environment)
    main_pc,            \* UI thread: "new" inside Default::default, then "running"
    dll_url,            \* ModInstallerApp fields, lines 13-21
    status_message,
    is_installing,
    steam_path,
    game_path,
    status_rx,
    show_manual_input,
    import_status,
    tasks,              \* tasks spawned on self.runtime, in spawn order
    chans,              \* chans[i]: the mpsc channel created by the i-th install_mod
    clicks              \* number of UI events handled so far (bounds the run)

vars == <<fs, net_up, main_pc, dll_url, status_message, is_installing, steam_path,
          game_path, status_rx, show_manual_input, import_status, tasks, chans,
          clicks>>

----------------------------------------------------------------------------
(* Bounds *)

\* UI events (button clicks) handled in one run.
MaxClicks == 3

----------------------------------------------------------------------------
(* Option, messages *)

None == << >>
Some(x) == << x >>
IsSome(o) == o # None
Unwrap(o) == o[1]

Msg(text) == << text, << >> >>
MsgWith(text, detail) == << text, detail >>

----------------------------------------------------------------------------
(* Paths: PathBuf::from, join, ends_with *)

SteamX86 == << "C:", "Program Files (x86)", "Steam" >>
SteamPF == << "C:", "Program Files", "Steam" >>
GameRel == << "steamapps", "common", "Sky Children of the Light" >>
GameD == << "D:", "SteamLibrary" >> \o GameRel
GameE == << "E:", "SteamLibrary" >> \o GameRel
GameName == << "Sky Children of the Light" >>
ResourcesDir == << "TNSM Resources" >>
DllName == << "powrprof.dll" >>

join(p, rel) == p \o rel

ends_with(p, child) ==
    /\ Len(child) <= Len(p)
    /\ SubSeq(p, Len(p) - Len(child) + 1, Len(p)) = child

IsPrefix(p, q) == Len(p) <= Len(q) /\ SubSeq(q, 1, Len(p)) = p

Prefixes(p) == { SubSeq(p, 1, n) : n \in 1..Len(p) }

----------------------------------------------------------------------------
(* Filesystem primitives *)

Dir == << "dir" >>
File(data) == << "file", data >>

exists(f, p) == p \in DOMAIN f
is_dir(f, p) == p \in DOMAIN f /\ f[p] = Dir

\* A filesystem holding exactly the directory chains of the paths in ds and the
\* files fl (a function from paths to File values) with their parent chains.
MkFs(ds, fl) ==
    LET dirs == UNION { Prefixes(d) : d \in ds }
                  \cup UNION { Prefixes(SubSeq(p, 1, Len(p) - 1)) : p \in DOMAIN fl }
    IN [ p \in dirs \cup DOMAIN fl |-> IF p \in DOMAIN fl THEN fl[p] ELSE Dir ]

\* Removal of the subtree rooted at p (done by the user or another program).
RemoveTree(f, p) == [ q \in { q \in DOMAIN f : ~IsPrefix(p, q) } |-> f[q] ]

\* Result<(), String> of a filesystem operation together with the filesystem it leaves.
FsOk(f) == [ ok |-> TRUE, err |-> << >>, fs |-> f ]
FsErr(e, f) == [ ok |-> FALSE, err |-> e, fs |-> f ]

\* std::fs::create_dir_all: creates p and every missing ancestor; fails when the drive
\* is missing or a component is a file.
create_dir_all(f, p) ==
    IF ~exists(f, SubSeq(p, 1, 1)) \/ \E q \in Prefixes(p) : exists(f, q) /\ f[q] # Dir
    THEN FsErr(Msg("os error"), f)
    ELSE FsOk([ q \in DOMAIN f \cup Prefixes(p) |-> IF q \in DOMAIN f THEN f[q] ELSE Dir ])

\* A copy that keeps a file already at the destination.
fs_copy_keep(f, from, to) ==
    IF ~is_dir(f, SubSeq(to, 1, Len(to) - 1)) \/ is_dir(f, to)
    THEN FsErr(Msg("os error"), f)
    ELSE FsOk([ q \in DOMAIN f \cup {to} |-> IF q \in DOMAIN f THEN f[q] ELSE f[from] ])

\* std::fs::copy(from, to): from is a file; fails when to's parent is missing or to
\* is a directory; otherwise creates or truncates to.
fs_copy(f, from, to) ==
    IF ~is_dir(f, SubSeq(to, 1, Len(to) - 1)) \/ is_dir(f, to)
    THEN FsErr(Msg("os error"), f)
    ELSE FsOk([ q \in DOMAIN f \cup {to} |-> IF q = to THEN f[from] ELSE f[q] ])

\* tokio::fs::write(path, bytes): creates or truncates path.
fs_write(f, path, bytes) ==
    IF ~is_dir(f, SubSeq(path, 1, Len(path) - 1)) \/ is_dir(f, path)
    THEN FsErr(Msg("os error"), f)
    ELSE FsOk([ q \in DOMAIN f \cup {path} |-> IF q = path THEN File(bytes) ELSE f[q] ])

----------------------------------------------------------------------------
(* The program state as one record, so that a handler is a function on it *)

St == [ fs |-> fs, dll_url |-> dll_url, status_message |-> status_message,
        is_installing |-> is_installing, steam_path |-> steam_path,
        game_path |-> game_path, status_rx |-> status_rx,
        show_manual_input |-> show_manual_input, import_status |-> import_status,
        tasks |-> tasks, chans |-> chans ]

Commit(s) ==
    /\ fs' = s.fs
    /\ dll_url' = s.dll_url
    /\ status_message' = s.status_message
    /\ is_installing' = s.is_installing
    /\ steam_path' = s.steam_path
    /\ game_path' = s.game_path
    /\ status_rx' = s.status_rx
    /\ show_manual_input' = s.show_manual_input
    /\ import_status' = s.import_status
    /\ tasks' = s.tasks
    /\ chans' = s.chans

DefaultUrl == "https://github.com/alvindimas05/ThatNoobSkyMod/releases/latest/download/TNSM.dll"

----------------------------------------------------------------------------
(* Path Resolver: detect_steam_path, find_game_directory, browse_for_path *)

\* The probing loop without its break: the last existing path wins.
LastExisting(f, list) ==
    IF \E i \in 1..Len(list) : exists(f, list[i])
    THEN CHOOSE i \in 1..Len(list) :
            /\ exists(f, list[i])
            /\ \A j \in (i + 1)..Len(list) : ~exists(f, list[j])
    ELSE 0

\* Index of the first path of the list that exists, 0 when none does.
FirstExisting(f, list) ==
    IF \E i \in 1..Len(list) : exists(f, list[i])
    THEN CHOOSE i \in 1..Len(list) :
            /\ exists(f, list[i])
            /\ \A j \in 1..(i - 1) : ~exists(f, list[j])
    ELSE 0

library_folders(steam) == << join(steam, GameRel), GameD, GameE >>

\* find_game_directory resetting the target when it finds none.
find_game_directory_resetting(s, steam) ==
    LET folders == library_folders(steam)
        i == FirstExisting(s.fs, folders)
    IN IF i # 0
       THEN [ s EXCEPT !.game_path = Some(folders[i]),
                       !.status_message = MsgWith("Game found: ", folders[i]),
                       !.show_manual_input = FALSE ]
       ELSE [ s EXCEPT !.game_path = None,
                       !.status_message =
                           Msg("Sky Children of the Light not found in Steam directories"),
                       !.show_manual_input = TRUE ]

find_game_directory(s, steam) ==
    LET folders == library_folders(steam)
        i == FirstExisting(s.fs, folders)
    IN IF i # 0
       THEN [ s EXCEPT !.game_path = Some(folders[i]),
                       !.status_message = MsgWith("Game found: ", folders[i]),
                       !.show_manual_input = FALSE ]
       ELSE [ s EXCEPT !.status_message =
                           Msg("Sky Children of the Light not found in Steam directories"),
                       !.show_manual_input = TRUE ]

possible_paths == << SteamX86, SteamPF >>

detect_steam_path(s) ==
    LET i == FirstExisting(s.fs, possible_paths)
        s1 == IF i # 0
              THEN find_game_directory([ s EXCEPT !.steam_path = Some(possible_paths[i]) ],
                                       possible_paths[i])
              ELSE s
    IN IF s1.steam_path = None
       THEN [ s1 EXCEPT !.status_message =
                            Msg("Steam directory not found. Please browse for path."),
                        !.show_manual_input = TRUE ]
       ELSE s1

\* browse_for_path asking for Sky.exe and the folder name together.
browse_for_path_both(s, pick) ==
    IF pick = None THEN s
    ELSE LET path == Unwrap(pick) IN
         IF exists(s.fs, join(path, << "steamapps" >>))
         THEN find_game_directory([ s EXCEPT !.steam_path = Some(path) ], path)
         ELSE IF exists(s.fs, path)
                 /\ exists(s.fs, join(path, << "Sky.exe" >>)) /\ ends_with(path, GameName)
         THEN [ s EXCEPT !.game_path = Some(path),
                         !.status_message = MsgWith("Game path set: ", path),
                         !.show_manual_input = FALSE ]
         ELSE [ s EXCEPT !.status_message =
                             Msg("Invalid path. Please select Steam folder or game folder.") ]

\* pick is the folder dialog's result: None when the dialog is cancelled.
browse_for_path(s, pick) ==
    IF pick = None THEN s
    ELSE LET path == Unwrap(pick) IN
         IF exists(s.fs, join(path, << "steamapps" >>))
         THEN find_game_directory([ s EXCEPT !.steam_path = Some(path) ], path)
         ELSE IF exists(s.fs, path)
                 /\ (exists(s.fs, join(path, << "Sky.exe" >>)) \/ ends_with(path, GameName))
         THEN [ s EXCEPT !.game_path = Some(path),
                         !.status_message = MsgWith("Game path set: ", path),
                         !.show_manual_input = FALSE ]
         ELSE [ s EXCEPT !.status_message =
                             Msg("Invalid path. Please select Steam folder or game folder.") ]

----------------------------------------------------------------------------
(* Resource Importer: browse_and_import_resources, copy_resources_sync,
   copy_dir_recursive *)

\* read_dir(dir) as the entry names in the order the filesystem lists them: order
\* is the listing order of the names (unspecified by the platform).
read_dir(f, dir, order) ==
    LET Listed(n) == exists(f, join(dir, << n >>))
    IN SelectSeq(order, Listed)

RECURSIVE copy_dir_recursive(_, _, _, _)
RECURSIVE CopyEntries(_, _, _, _, _, _)

\* The `for entry in entries` loop of copy_resources_sync (top) and of
\* copy_dir_recursive: the first failing entry aborts the loop.
CopyEntries(f, source, dest, names, order, top) ==
    IF names = << >> THEN FsOk(f)
    ELSE LET file_name == Head(names)
             source_path == join(source, << file_name >>)
             dest_path == join(dest, << file_name >>)
             c == fs_copy(f, source_path, dest_path)
             r == IF is_dir(f, source_path)
                  THEN copy_dir_recursive(f, source_path, dest_path, order)
                  ELSE IF c.ok THEN c
                  ELSE IF top
                  THEN FsErr(MsgWith("Failed to copy {}: ", << file_name >>), c.fs)
                  ELSE FsErr(Msg("Failed to copy file: "), c.fs)
         IN IF r.ok
            THEN CopyEntries(r.fs, source, dest, Tail(names), order, top)
            ELSE r

copy_dir_recursive(f, source, dest, order) ==
    LET d == create_dir_all(f, dest)
    IN IF ~d.ok THEN FsErr(Msg("Failed to create directory: "), d.fs)
       ELSE IF ~is_dir(d.fs, source) THEN FsErr(Msg("Failed to read directory: "), d.fs)
       ELSE CopyEntries(d.fs, source, dest, read_dir(d.fs, source, order), order, FALSE)

copy_resources_sync(f, source, dest, order) ==
    LET d == create_dir_all(f, dest)
    IN IF ~d.ok THEN FsErr(Msg("Failed to create destination directory: "), d.fs)
       ELSE IF ~is_dir(d.fs, source) THEN FsErr(Msg("Failed to read source directory: "), d.fs)
       ELSE CopyEntries(d.fs, source, dest, read_dir(d.fs, source, order), order, TRUE)

\* pick is the folder dialog's result (None: cancelled).
browse_and_import_resources(s, pick, order) ==
    IF s.game_path = None
    THEN [ s EXCEPT !.import_status = Msg("Game directory not set. Cannot import resources.") ]
    ELSE IF pick = None THEN s
    ELSE LET source_folder == Unwrap(pick)
             dest_path == join(Unwrap(s.game_path), ResourcesDir)
             r == copy_resources_sync(s.fs, source_folder, dest_path, order)
         IN IF r.ok
            THEN [ s EXCEPT !.fs = r.fs,
                            !.import_status = Msg("Resources imported successfully!") ]
            ELSE [ s EXCEPT !.fs = r.fs,
                            !.import_status = MsgWith("Import failed: ", r.err) ]

----------------------------------------------------------------------------
(* Asset Installer and Status Channel: install_mod, the spawned task,
   download_and_install_async, check_install_status *)

Success(m) == [ kind |-> "Success", msg |-> m ]
Error(m) == [ kind |-> "Error", msg |-> m ]

\* Dropping a Receiver: later sends on its channel fail and are ignored.
DropRx(ch, rx) ==
    IF rx = None THEN ch ELSE [ ch EXCEPT ![Unwrap(rx)].rx_alive = FALSE ]

NewTask(url, path, chan) ==
    [ pc |-> "fetch", dll_url |-> url, game_path |-> path, chan |-> chan,
      result |-> None, dll_bytes |-> None ]

\* A task that has run to its end: its locals are dropped.
FinishedTask(t) == [ t EXCEPT !.pc = "done", !.result = None, !.dll_bytes = None ]

\* install_mod raising the flag before it checks its preconditions.
install_mod_flag_first(s) ==
    IF s.dll_url = ""
    THEN [ s EXCEPT !.is_installing = TRUE,
                    !.status_message = Msg("Please enter a DLL URL first") ]
    ELSE IF s.game_path = None
    THEN [ s EXCEPT !.is_installing = TRUE,
                    !.status_message = Msg("Game directory not found. Cannot install.") ]
    ELSE LET id == Len(s.chans) + 1
         IN [ s EXCEPT !.is_installing = TRUE,
                       !.status_message = Msg("Downloading and installing..."),
                       !.chans = Append(DropRx(s.chans, s.status_rx),
                                        [ queue |-> << >>, rx_alive |-> TRUE, sends |-> 0 ]),
                       !.status_rx = Some(id),
                       !.tasks = Append(s.tasks,
                                        NewTask(s.dll_url, Unwrap(s.game_path), id)) ]

install_mod(s) ==
    IF s.dll_url = ""
    THEN [ s EXCEPT !.status_message = Msg("Please enter a DLL URL first") ]
    ELSE IF s.game_path = None
    THEN [ s EXCEPT !.status_message = Msg("Game directory not found. Cannot install.") ]
    ELSE LET id == Len(s.chans) + 1
         IN [ s EXCEPT !.is_installing = TRUE,
                       !.status_message = Msg("Downloading and installing..."),
                       !.chans = Append(DropRx(s.chans, s.status_rx),
                                        [ queue |-> << >>, rx_alive |-> TRUE, sends |-> 0 ]),
                       !.status_rx = Some(id),
                       !.tasks = Append(s.tasks,
                                        NewTask(s.dll_url, Unwrap(s.game_path), id)) ]

\* check_install_status treating "nothing received yet" like a completion.
check_install_status_eager(s) ==
    IF s.status_rx = None THEN s
    ELSE LET rx == Unwrap(s.status_rx) IN
         [ s EXCEPT !.status_message = IF s.chans[rx].queue = << >> THEN @
                                        ELSE Head(s.chans[rx].queue).msg,
                    !.is_installing = FALSE,
                    !.chans = [ s.chans EXCEPT ![rx].queue = IF @ = << >> THEN @ ELSE Tail(@),
                                               ![rx].rx_alive = FALSE ],
                    !.status_rx = None ]

\* check_install_status whose Error arm shows the message and forgets the rest.
check_install_status_error_arm(s) ==
    IF s.status_rx = None THEN s
    ELSE LET rx == Unwrap(s.status_rx) IN
         IF s.chans[rx].queue = << >> THEN s
         ELSE IF Head(s.chans[rx].queue).kind = "Error"
         THEN [ s EXCEPT !.status_message = Head(s.chans[rx].queue).msg,
                         !.chans = [ s.chans EXCEPT ![rx].queue = Tail(@) ] ]
         ELSE [ s EXCEPT !.status_message = Head(s.chans[rx].queue).msg,
                         !.is_installing = FALSE,
                         !.chans = [ s.chans EXCEPT ![rx].queue = Tail(@),
                                                    ![rx].rx_alive = FALSE ],
                         !.status_rx = None ]

check_install_status(s) ==
    IF s.status_rx = None THEN s
    ELSE LET rx == Unwrap(s.status_rx) IN
         IF s.chans[rx].queue = << >> THEN s
         ELSE [ s EXCEPT !.status_message = Head(s.chans[rx].queue).msg,
                         !.is_installing = FALSE,
                         !.chans = [ s.chans EXCEPT ![rx].queue = Tail(@),
                                                    ![rx].rx_alive = FALSE ],
                         !.status_rx = None ]

\* tx.send(status): queued while the receiver is alive, otherwise an Err the task ignores.
send(ch, id, status) ==
    [ ch EXCEPT ![id].queue = IF ch[id].rx_alive THEN Append(@, status) ELSE @,
                ![id].sends = @ + 1 ]

\* download_and_install_async going on to the next stage whatever the stage returned.
download_and_install_async_unchecked(s, i, io, body) ==
    LET t == s.tasks[i] IN
    CASE t.pc = "fetch" -> [ s EXCEPT !.tasks[i].pc = "read" ]
      [] t.pc = "read" ->
           [ s EXCEPT !.tasks[i].pc = "write", !.tasks[i].dll_bytes = Some(body) ]
      [] t.pc = "write" ->
           LET w == fs_write(s.fs, join(t.game_path, DllName), Unwrap(t.dll_bytes))
           IN [ s EXCEPT !.fs = w.fs, !.tasks[i].pc = "send",
                         !.tasks[i].dll_bytes = None,
                         !.tasks[i].result = Some(Success(<< >>)) ]

\* One await point of download_and_install_async for task i. io is what the network
\* (fetch, read) or the operating system (write) does at this step: "ok" or "err";
\* body is the response body a successful read yields.
download_and_install_async(s, i, io, body) ==
    LET t == s.tasks[i] IN
    CASE t.pc = "fetch" ->
           IF io = "ok"
           THEN [ s EXCEPT !.tasks[i].pc = "read" ]
           ELSE [ s EXCEPT !.tasks[i].pc = "send",
                           !.tasks[i].result = Some(Error(Msg("Download failed: "))) ]
      [] t.pc = "read" ->
           IF io = "ok"
           THEN [ s EXCEPT !.tasks[i].pc = "write", !.tasks[i].dll_bytes = Some(body) ]
           ELSE [ s EXCEPT !.tasks[i].pc = "send",
                           !.tasks[i].result = Some(Error(Msg("Failed to read response: "))) ]
      [] t.pc = "write" ->
           LET w == fs_write(s.fs, join(t.game_path, DllName), Unwrap(t.dll_bytes))
           IN IF io = "ok" /\ w.ok
              THEN [ s EXCEPT !.fs = w.fs, !.tasks[i].pc = "send",
                              !.tasks[i].dll_bytes = None,
                              !.tasks[i].result = Some(Success(<< >>)) ]
              ELSE [ s EXCEPT !.tasks[i].pc = "send",
                              !.tasks[i].dll_bytes = None,
                              !.tasks[i].result = Some(Error(Msg("Failed to write DLL: "))) ]

\* The async block install_mod spawns: the download, then the send, then the repaint.
SpawnedTask(s, i, io, body) ==
    LET t == s.tasks[i] IN
    CASE t.pc \in { "fetch", "read", "write" } -> download_and_install_async(s, i, io, body)
      [] t.pc = "send" ->
           LET status == IF Unwrap(t.result).kind = "Success"
                         THEN Success(Msg("Mod installed successfully! Launch the game to use it."))
                         ELSE Error(MsgWith("Installation failed: ", Unwrap(t.result).msg))
           IN [ s EXCEPT !.chans = send(s.chans, t.chan, status),
                         !.tasks[i].pc = "repaint",
                         !.tasks[i].result = None ]
      [] t.pc = "repaint" -> [ s EXCEPT !.tasks[i] = FinishedTask(t) ]

----------------------------------------------------------------------------
(* Presentation Loop: one action per frame of update(), by the event it handles *)

\* The install button left enabled during an install.
InstallAlwaysEnabled(s) == TRUE

\* add_enabled_ui(!self.is_installing, ..): the install button takes clicks only then.
InstallEnabled(s) == ~s.is_installing

update_idle(s) == check_install_status(s)
update_browse(s, pick) == browse_for_path(check_install_status(s), pick)
update_install(s) == install_mod(check_install_status(s))
update_import(s, pick, order) ==
    browse_and_import_resources(check_install_status(s), pick, order)

----------------------------------------------------------------------------
(* Environment: what exists on disk at start, what the dialogs can return *)

Custom == << "C:", "Games", "Sky" >>
SourceDir == << "C:", "TSM" >>
EntryNames == { "a", "b" }
Bodies == { << "dll-1" >>, << "dll-2" >> }
IoOutcomes == { "ok", "err" }

Steamapps(root) == join(root, << "steamapps" >>)

SkyExe == join(Custom, << "Sky.exe" >>)

\* The folder the import dialog offers in Spec: a file and a subdirectory with a file.
SourceFiles ==
    ( join(SourceDir, << "a" >>) :> File(<< "src", "a" >>) ) @@
    ( join(SourceDir, << "b", "a" >>) :> File(<< "src", "b", "a" >>) )

\* Every filesystem made of the directories ds (with their ancestors), optionally
\* Sky.exe in Custom, and the files fl.
FsOver(dirs, fl) ==
    { MkFs(ds \cup { << "C:" >> }, fl @@ ex) :
        ds \in SUBSET dirs, ex \in { << >>, SkyExe :> File(<< "exe" >>) } }

\* Spec: one launcher root, one fallback volume, one custom game folder.
MainDirs ==
    { SteamX86, Steamapps(SteamX86), join(SteamX86, GameRel), GameD, Custom }

MainFs == FsOver(MainDirs, SourceFiles)

BrowsePicks == { None, Some(SteamX86), Some(GameD), Some(Custom) }

\* SpecResolve: every candidate of detect_steam_path and find_game_directory, and a
\* custom folder that may hold steamapps, Sky.exe, both or neither.
AllDirs ==
    MainDirs \cup { SteamPF, Steamapps(SteamPF), join(SteamPF, GameRel), GameE,
                    Steamapps(Custom), join(Custom, GameRel) }

AllFs == FsOver(AllDirs, << >>)

AllPicks ==
    BrowsePicks \cup { Some(SteamPF), Some(join(SteamX86, GameRel)),
                       Some(join(SteamPF, GameRel)), Some(GameE) }

ImportPicks == { None, Some(SourceDir) }

Orders == { << "a", "b" >>, << "b", "a" >> }

----------------------------------------------------------------------------
(* The state machine *)

\* The struct literal of Default::default (lines 26-36), before detect_steam_path.
InitOver(FsSet, NetSet) ==
    /\ fs \in FsSet
    /\ net_up \in NetSet
    /\ main_pc = "new"
    /\ dll_url = DefaultUrl
    /\ status_message = Msg("Ready to install")
    /\ is_installing = FALSE
    /\ steam_path = None
    /\ game_path = None
    /\ status_rx = None
    /\ show_manual_input = FALSE
    /\ import_status = Msg("")
    /\ tasks = << >>
    /\ chans = << >>
    /\ clicks = 0

Init == InitOver(MainFs, BOOLEAN)

\* Default::default line 37: app.detect_steam_path().
Construct ==
    /\ main_pc = "new"
    /\ main_pc' = "running"
    /\ Commit(detect_steam_path(St))
    /\ UNCHANGED << net_up, clicks >>

FrameIdle ==
    /\ main_pc = "running"
    /\ Commit(update_idle(St))
    /\ UNCHANGED << net_up, main_pc, clicks >>

FrameBrowseOver(picks) ==
    /\ main_pc = "running"
    /\ clicks < MaxClicks
    /\ \E pick \in picks : Commit(update_browse(St, pick))
    /\ clicks' = clicks + 1
    /\ UNCHANGED << net_up, main_pc >>

FrameBrowse == FrameBrowseOver(BrowsePicks)

FrameInstall ==
    /\ main_pc = "running"
    /\ clicks < MaxClicks
    /\ InstallEnabled(check_install_status(St))
    /\ Commit(update_install(St))
    /\ clicks' = clicks + 1
    /\ UNCHANGED << net_up, main_pc >>

FrameImport ==
    /\ main_pc = "running"
    /\ clicks < MaxClicks
    /\ \E pick \in ImportPicks, order \in Orders : Commit(update_import(St, pick, order))
    /\ clicks' = clicks + 1
    /\ UNCHANGED << net_up, main_pc >>

\* What the network or the disk may do at task i's next step: an unreachable URL
\* fails the fetch; everything else may succeed or fail.
IoAt(i) == IF tasks[i].pc = "fetch" /\ ~net_up THEN { "err" } ELSE IoOutcomes

TaskStep ==
    /\ \E i \in 1..Len(tasks) :
          /\ tasks[i].pc # "done"
          /\ \E io \in IoAt(i), body \in Bodies : Commit(SpawnedTask(St, i, io, body))
    /\ UNCHANGED << net_up, main_pc, clicks >>

\* The held target directory is deleted from outside the program.
EnvRemove ==
    /\ game_path # None
    /\ exists(fs, Unwrap(game_path))
    /\ fs' = RemoveTree(fs, Unwrap(game_path))
    /\ UNCHANGED << net_up, main_pc, dll_url, status_message, is_installing, steam_path,
                    game_path, status_rx, show_manual_input, import_status, tasks,
                    chans, clicks >>

Next ==
    \/ Construct
    \/ FrameIdle
    \/ FrameBrowse
    \/ FrameInstall
    \/ FrameImport
    \/ TaskStep
    \/ EnvRemove

Spec == Init /\ [][Next]_vars

\* The scheduling the code guarantees: the runtime keeps polling a spawned task and
\* every await of this model returns; the task ends with ctx.request_repaint() and
\* update() requests a repaint while is_installing, so frames keep coming.
FairSpec == Spec /\ WF_vars(TaskStep) /\ WF_vars(FrameIdle)

----------------------------------------------------------------------------
(* Path Resolver over every combination of the candidate paths *)

FrameBrowseAny == FrameBrowseOver(AllPicks)

NextResolve ==
    \/ Construct
    \/ FrameBrowseAny

InitResolve == InitOver(AllFs, { TRUE })

SpecResolve == InitResolve /\ [][NextResolve]_vars

----------------------------------------------------------------------------
(* Resource Importer over every source tree and every prior destination, two levels
   deep over EntryNames *)

Kinds == { "none", "file", "dir" }

\* The trees under root: top[n] is what entry n is, sub[<<n, m>>] what entry m of
\* directory n is. A file holds << tag >> followed by its path relative to root.
TreeOf(root, tag, top, sub) ==
    LET d1 == { << n >> : n \in { n \in EntryNames : top[n] = "dir" } }
        f1 == { << n >> : n \in { n \in EntryNames : top[n] = "file" } }
        d2 == { nm \in EntryNames \X EntryNames : top[nm[1]] = "dir" /\ sub[nm] = "dir" }
        f2 == { nm \in EntryNames \X EntryNames : top[nm[1]] = "dir" /\ sub[nm] = "file" }
    IN [ dirs |-> { join(root, r) : r \in d1 \cup d2 } \cup { root },
         files |-> [ p \in { join(root, r) : r \in f1 \cup f2 } |->
                        File(<< tag >> \o SubSeq(p, Len(root) + 1, Len(p))) ] ]

Trees(root, tag) ==
    { TreeOf(root, tag, top, sub) :
        top \in [ EntryNames -> Kinds ], sub \in [ EntryNames \X EntryNames -> Kinds ] }

ImportTarget == join(SteamX86, GameRel)
ImportDest == join(ImportTarget, ResourcesDir)

\* The destination before the import: absent, a file, or any tree.
PriorDests ==
    Trees(ImportDest, "old")
      \cup { [ dirs |-> { }, files |-> << >> ],
             [ dirs |-> { }, files |-> ( ImportDest :> File(<< "old" >>) ) ] }

ImportFs ==
    { MkFs({ ImportTarget } \cup src.dirs \cup dst.dirs, src.files @@ dst.files) :
        src \in Trees(SourceDir, "src"), dst \in PriorDests }

NextImport ==
    \/ Construct
    \/ FrameImport

InitImport == InitOver(ImportFs, { TRUE })

SpecImport == InitImport /\ [][NextImport]_vars

----------------------------------------------------------------------------
(* Properties *)

\* Task i is outstanding: it has not yet sent its outcome.
Pending(i) == tasks[i].pc \in { "fetch", "read", "write", "send" }

\* A message waits on the channel the UI holds the receiver of.
MessageWaiting == status_rx # None /\ chans[Unwrap(status_rx)].queue # << >>

Spawned == Len(tasks') > Len(tasks)

NoGameDirMsg == Msg("Game directory not found. Cannot install.")
NoUrlMsg == Msg("Please enter a DLL URL first")
InstalledMsg == Msg("Mod installed successfully! Launch the game to use it.")
NotFoundMsg == Msg("Sky Children of the Light not found in Steam directories")
InvalidMsg == Msg("Invalid path. Please select Steam folder or game folder.")
ImportedMsg == Msg("Resources imported successfully!")
DownloadFailure == Error(MsgWith("Installation failed: ", Msg("Download failed: ")))

\* At most one task has not yet sent its outcome.
C1_AtMostOne == Cardinality({ i \in DOMAIN tasks : Pending(i) }) <= 1

\* A step that spawns a task starts with the flag false, or with the message waiting
\* that the frame's check_install_status takes before install_mod runs.
C1_SpawnOnlyIdle == Spawned => (~is_installing \/ MessageWaiting)

\* C1: at most one install task is outstanding at any time, and a task is spawned
\* only in a frame whose install_mod call finds is_installing false (the flag is
\* false already, or this frame's check_install_status clears it on a waiting message).
C1_OneInstallInFlight == [](C1_AtMostOne) /\ [][C1_SpawnOnlyIdle]_vars

\* A second install is in flight, started after the first one had delivered its outcome.
C1_Witness ==
    /\ is_installing
    /\ Len(tasks) = 2
    /\ Pending(2)
    /\ ~Pending(1)

\* The flag is up from the moment a task exists until it has sent.
C2_FlagWhilePending ==
    \A i \in DOMAIN tasks :
        Pending(i) => is_installing /\ status_rx = Some(tasks[i].chan)

\* The flag is cleared only by receiving the task's message.
C2_ClearOnlyOnMessage ==
    (is_installing /\ ~is_installing') =>
        /\ MessageWaiting
        /\ chans[Unwrap(status_rx)].sends >= 1
        /\ ~Pending(Unwrap(status_rx))
        /\ status_rx' = None
        /\ chans'[Unwrap(status_rx)].queue = Tail(chans[Unwrap(status_rx)].queue)

\* C2: while a task has not sent its outcome is_installing is true and the UI holds
\* that task's receiver; is_installing goes from true to false only in a step that
\* takes a message the task has sent from the channel and drops the receiver.
C2_FlagOrdering == [](C2_FlagWhilePending) /\ [][C2_ClearOnlyOnMessage]_vars

\* An install has completed and the UI has observed it.
C2_Witness ==
    /\ ~is_installing
    /\ status_message = InstalledMsg
    /\ Len(tasks) = 1
    /\ chans[1].sends = 1

\* One send per channel, one receive, then the receiver is dropped.
C3_Once ==
    \A c \in DOMAIN chans :
        /\ chans[c].sends <= 1
        /\ Len(chans[c].queue) <= chans[c].sends
        /\ tasks[c].pc \in { "repaint", "done" } => chans[c].sends = 1
        /\ ~chans[c].rx_alive => chans[c].queue = << >> /\ chans[c].sends = 1
        /\ chans[c].rx_alive <=> status_rx = Some(c)
        /\ chans[c].rx_alive => is_installing

\* C3: every channel carries exactly one message: a task sends once (never twice, and
\* once it is past its send it has sent), the UI takes the message once and then drops
\* the receiver; and every started install leads to is_installing = false.
C3_DeliveredOnce == [](C3_Once) /\ (is_installing ~> ~is_installing)

\* A failed install whose one message the UI has consumed, the receiver dropped.
C3_Witness ==
    /\ ~is_installing
    /\ status_rx = None
    /\ Len(chans) = 1
    /\ chans[1].sends = 1
    /\ ~chans[1].rx_alive
    /\ status_message = DownloadFailure.msg

\* What a step may do while a precondition of install is violated.
C4_NothingStarted ==
    /\ (dll_url = "" \/ game_path = None) =>
           /\ tasks' = tasks
           /\ chans' = chans
           /\ status_rx' = status_rx
           /\ ~is_installing'
           /\ fs' = fs
           /\ FrameInstall =>
                 status_message' = IF dll_url = "" THEN NoUrlMsg ELSE NoGameDirMsg
    /\ ~is_installing =>
           install_mod([ St EXCEPT !.dll_url = "" ])
             = [ St EXCEPT !.dll_url = "", !.status_message = NoUrlMsg ]

\* C4: while the URL is empty or no target directory is resolved, no step starts an
\* operation (no task, no channel, no receiver, flag false, filesystem untouched), and
\* a frame that handles an install click reports the violation in status_message.
\* dll_url has no edit control in this program and is never empty, so the empty-URL
\* arm is stated of install_mod applied to the current state with the URL emptied:
\* it changes status_message and nothing else.
C4_PreconditionError == [][C4_NothingStarted]_vars

\* Install was clicked with no target directory resolved.
C4_Witness ==
    /\ game_path = None
    /\ status_message = NoGameDirMsg
    /\ ~is_installing
    /\ tasks = << >>
    /\ status_rx = None

\* C5: with the URL unreachable no powrprof.dll is ever written (none exists at start),
\* no task gets past the fetch stage into read or write, and each channel receives
\* exactly one message, the failure wrapping the download-stage error.
C5_UnreachableUrl ==
    ~net_up =>
        /\ \A p \in DOMAIN fs : ~ends_with(p, DllName)
        /\ \A c \in DOMAIN chans :
              /\ tasks[c].pc \notin { "read", "write" }
              /\ chans[c].sends <= 1
              /\ tasks[c].pc \in { "repaint", "done" } => chans[c].sends = 1
              /\ \A k \in DOMAIN chans[c].queue : chans[c].queue[k] = DownloadFailure
              /\ tasks[c].pc = "send" =>
                    tasks[c].result = Some(Error(Msg("Download failed: ")))

\* The failure message of an install against an unreachable URL waits on the channel.
C5_Witness ==
    /\ ~net_up
    /\ Len(chans) >= 1
    /\ chans[1].queue = << DownloadFailure >>
    /\ tasks[1].pc = "done"

\* The list find_game_directory probes from launcher root r, in its order.
InstallCandidates(r) == << join(r, GameRel), GameD, GameE >>

\* The first path of the list that exists, None when none does.
FirstOf(f, list) ==
    IF exists(f, list[1]) THEN Some(list[1])
    ELSE IF Len(list) >= 2 /\ exists(f, list[2]) THEN Some(list[2])
    ELSE IF Len(list) >= 3 /\ exists(f, list[3]) THEN Some(list[3])
    ELSE None

\* C6 as stated: at start-up the resolver ends Found (game_path is Some) iff at least
\* one installation-directory candidate exists on disk, and otherwise NeedsInput.
C6_FoundIffAnyCandidate ==
    [][ main_pc = "new" =>
          /\ IsSome(game_path') <=>
                \E c \in { join(SteamX86, GameRel), join(SteamPF, GameRel), GameD, GameE } :
                    exists(fs, c)
          /\ ~IsSome(game_path') => show_manual_input' ]_vars

\* C6 (amended): at start-up the resolver ends Found iff a launcher root exists and,
\* from the first existing launcher root in list order, one of its three installation
\* candidates exists; the target is the first of these in list order; otherwise it
\* ends NeedsInput (game_path None, show_manual_input true).
C6_FoundFromFirstRoot ==
    [][ main_pc = "new" =>
          LET root == FirstOf(fs, << SteamX86, SteamPF >>)
              target == IF root = None THEN None
                        ELSE FirstOf(fs, InstallCandidates(Unwrap(root)))
          IN /\ steam_path' = root
             /\ game_path' = target
             /\ show_manual_input' = (target = None) ]_vars

\* Start-up found the game on the D: volume, the candidate under the launcher root
\* being absent.
C6_Witness ==
    /\ main_pc = "running"
    /\ clicks = 0
    /\ game_path = Some(GameD)
    /\ steam_path = Some(SteamPF)
    /\ exists(fs, GameE)

\* C7: for every folder P the dialog can return: if P/steamapps exists the result is
\* the sub-resolution from P (launcher root P; the first existing installation
\* candidate becomes the target, and if none exists the target is left as it was and
\* "not found" is reported); else if P exists and (P/Sky.exe exists or P's last
\* component is the game folder name) the target is P; else the path is reported
\* invalid and the target is left as it was.
C7_HintClassification ==
    main_pc = "running" =>
        \A pick \in AllPicks \ { None } :
            LET P == Unwrap(pick)
                r == browse_for_path(St, pick)
                sub == FirstOf(fs, InstallCandidates(P))
            IN IF exists(fs, P \o << "steamapps" >>)
               THEN /\ r.steam_path = Some(P)
                    /\ r.game_path = IF sub = None THEN game_path ELSE sub
                    /\ r.status_message = IF sub = None THEN NotFoundMsg
                                          ELSE MsgWith("Game found: ", Unwrap(sub))
                    /\ r.show_manual_input = (sub = None)
               ELSE IF exists(fs, P)
                       /\ (exists(fs, P \o << "Sky.exe" >>) \/ P[Len(P)] = GameName[1])
               THEN /\ r.game_path = Some(P)
                    /\ r.status_message = MsgWith("Game path set: ", P)
                    /\ r.steam_path = steam_path
                    /\ ~r.show_manual_input
               ELSE /\ r.status_message = InvalidMsg
                    /\ r.game_path = game_path
                    /\ r.steam_path = steam_path
                    /\ r.show_manual_input = show_manual_input

\* A picked folder was accepted as the game directory because it holds Sky.exe.
C7_Witness ==
    /\ game_path = Some(Custom)
    /\ status_message = MsgWith("Game path set: ", Custom)
    /\ exists(fs, SkyExe)
    /\ ~exists(fs, Steamapps(Custom))

\* C8 as stated: a step that uses the held target (install_mod starting an install
\* for it, an import writing under it) finds the target directory on disk.
C8_TargetExistsAtUse ==
    [][ /\ Spawned => exists(fs, Unwrap(game_path))
        /\ (clicks' = clicks + 1 /\ fs' # fs) => exists(fs, Unwrap(game_path)) ]_vars

\* What a step may do to a held target.
C10_Step ==
    IsSome(game_path) =>
        /\ IsSome(game_path')
        /\ status_message' \in { InvalidMsg, NotFoundMsg } => game_path' = game_path
        /\ (clicks' = clicks + 1 /\ status_message' = status_message) =>
              game_path' = game_path
        /\ Spawned => tasks'[Len(tasks')].game_path = Unwrap(game_path)

\* C10: once game_path is Some it stays Some; a step that ends with "invalid path" or
\* "not found" in status_message, or a click that changes no status (a cancelled
\* dialog), leaves game_path as it was; and an install spawned afterwards targets the
\* held directory.
C10_TargetKept == [][C10_Step]_vars

\* With a target held, a later browse of a launcher root found no game there.
C10_Witness ==
    /\ game_path = Some(Custom)
    /\ steam_path = Some(SteamX86)
    /\ status_message = NotFoundMsg
    /\ show_manual_input

\* The paths below root, relative to it.
RelPaths(f, root) ==
    { SubSeq(p, Len(root) + 1, Len(p)) : p \in { q \in DOMAIN f : IsPrefix(root, q) /\ q # root } }

DestOf == join(Unwrap(game_path), ResourcesDir)

ImportSucceeds == clicks' = clicks + 1 /\ import_status' = ImportedMsg

\* C9 as stated: after a successful import the destination subtree holds exactly the
\* source's files (byte-identical) and subdirectories, whatever it held before.
C9_ExactMirror ==
    [][ ImportSucceeds =>
          /\ RelPaths(fs', DestOf) = RelPaths(fs, SourceDir)
          /\ \A r \in RelPaths(fs, SourceDir) :
                fs'[join(DestOf, r)] = fs[join(SourceDir, r)] ]_vars

\* C9 (amended): after a successful import every file and subdirectory of the source
\* is in the destination at the same relative path, the files byte-identical; what the
\* destination held at other relative paths is still there unchanged; nothing outside
\* the destination subtree changes.
C9_OverlayMirror ==
    [][ ImportSucceeds =>
          /\ is_dir(fs', DestOf)
          /\ \A r \in RelPaths(fs, SourceDir) :
                /\ join(DestOf, r) \in DOMAIN fs'
                /\ fs'[join(DestOf, r)] = fs[join(SourceDir, r)]
          /\ \A r \in RelPaths(fs', DestOf) \ RelPaths(fs, SourceDir) :
                /\ join(DestOf, r) \in DOMAIN fs
                /\ fs'[join(DestOf, r)] = fs[join(DestOf, r)]
          /\ \A p \in DOMAIN fs \cup DOMAIN fs' :
                ~IsPrefix(DestOf, p) => p \in DOMAIN fs /\ p \in DOMAIN fs' /\ fs'[p] = fs[p] ]_vars

\* An import succeeded into a destination that already held a file the source lacks
\* and an older version of a file in a subdirectory.
C9_Witness ==
    /\ import_status = ImportedMsg
    /\ join(ImportDest, << "b", "a" >>) \in DOMAIN fs
    /\ fs[join(ImportDest, << "b", "a" >>)] = File(<< "src", "b", "a" >>)
    /\ join(ImportDest, << "b", "b" >>) \in DOMAIN fs
    /\ fs[join(ImportDest, << "b", "b" >>)] = File(<< "old", "b", "b" >>)
    /\ ~exists(fs, join(SourceDir, << "b", "b" >>))
    /\ join(ImportDest, << "a" >>) \in DOMAIN fs
    /\ fs[join(ImportDest, << "a" >>)] = Dir
    /\ is_dir(fs, join(SourceDir, << "a" >>))

====
